---- MODULE Spec2Model ----
(***************************************************************************)
(* Model of lsl::consumer_queue (src/src/consumer_queue.h): a bounded      *)
(* single-producer / multi-consumer ring buffer that drops the oldest      *)
(* sample when full, with a mutex / condition-variable slow path for       *)
(* blocking pops.  Every atomic load, store and compare-and-swap of the    *)
(* code is one step of the thread that performs it.                        *)
(***************************************************************************)
EXTENDS Integers, Naturals, Sequences, FiniteSets, TLC

\* ------------------------------------------------------------------ bounds
MaxSize == 2          \* largest capacity, specification Spec
MaxFastSize == 3      \* largest capacity, the other specifications
MaxPush == 3          \* number of push_sample calls, specification Spec
MaxFastPush == 5      \* number of push_sample calls, the other specifications
MaxPop == 3           \* number of pop_sample calls, concurrent consumers
MaxSeqPop == 4        \* number of pop_sample calls, SpecSeq and SpecDrain
MaxWakePush == 3      \* number of push_sample calls, specification FairWake
MaxWakePop == 2       \* number of pop_sample calls, specification FairWake
MaxRacePush == 4      \* number of push_sample calls, specification SpecRace
MaxWaitPush == 2      \* number of push_sample calls, specification FairWait
MaxWaitPop == 3       \* number of pop_sample calls, specification FairWait
NumWaiters == 1       \* number of consumer threads, specification FairWait
MaxOnePush == 3       \* number of push_sample calls, specification SpecOne
MaxOnePop == 3        \* number of pop_sample calls, specification SpecOne
MaxFlushPush == 4     \* number of push_sample calls, specification SpecFlush
MaxFlushPop == 2      \* number of pop_sample calls, specification SpecFlush
MaxFlush == 2         \* number of flush calls, specification SpecFlush
MaxAvailPush == 3     \* number of push_sample calls, specification SpecAvail
MaxAvailPop == 2      \* number of pop_sample calls, specification SpecAvail
MaxAvail == 2         \* number of read_available and empty calls, SpecAvail
NumConsumers == 2     \* number of consumer threads
NumRacers == 3        \* number of consumer threads, specification SpecRace

\* ------------------------------------------------------------- program data
FOREVER == 32000000   \* default timeout of pop_sample
Timeouts == {0, 1, FOREVER}

P == 0                                 \* the producer thread
Consumers == 1..NumConsumers           \* the consumer threads
Racers == 1..NumRacers                 \* the consumer threads of SpecRace
Waiters == 1..NumWaiters               \* the consumer threads of FairWait
Threads == {P} \cup Consumers \cup Racers \cup Waiters
NoThread == -1                         \* mutex not held

VARIABLES
    size_,        \* max number of elements in the queue
    wrap_at_,     \* threshold at which to wrap read/write indices
    buffer_,      \* the sample buffer: slot -> [seq_state, value]
    done_sync_,   \* one-time sync flag
    write_idx_,   \* current write position
    read_idx_,    \* current read position
    mut_,         \* owner of the mutex, or NoThread
    cv_,          \* threads blocked on the condition variable
    pc,           \* position of every thread
    ctx,          \* which call of try_pop a thread is executing
    read_index,   \* try_pop: local read_index of every thread
    write_index,  \* try_push: local write_index of the producer
    sample,       \* push_sample: the sample being pushed (0: none)
    result,       \* pop_sample: local result of every consumer (0: empty)
    timeout,      \* pop_sample: the timeout argument of every consumer
    acct,         \* read_available, empty, flush: locals of every consumer
    hist,         \* history of the calls of read_available, empty and flush
    pushed,       \* history: number of push_sample calls started
    npop,         \* history: number of pop_sample calls started
    claims        \* history: the successful read-cursor CASes, in order

vars == <<size_, wrap_at_, buffer_, done_sync_, write_idx_, read_idx_, mut_, cv_,
          pc, ctx, read_index, write_index, sample, result, timeout,
          acct, hist, pushed, npop, claims>>

shared == <<buffer_, done_sync_, write_idx_, read_idx_, mut_, cv_>>
config == <<size_, wrap_at_>>
accounting == <<acct, hist>>

\* a cursor not loaded yet
NotLoaded == -1
\* the locals of read_available, empty and flush outside a call
NoAcct == [w |-> NotLoaded, r |-> NotLoaded, n |-> 0]

\* --------------------------------------------------------------- helpers
\* add a delta to the given index and wrap
add_wrap(x, delta) ==
    LET xp == x + delta IN IF xp >= wrap_at_ THEN xp - wrap_at_ ELSE xp

\* the item a cursor value designates: buffer_[idx % size_]
slot(idx) == idx % size_

\* number of unread samples as the cursors give it: (write - read) mod wrap
unread == (write_idx_ - read_idx_ + wrap_at_) % wrap_at_

\* construction: seq_state[i] = i, cursors 0, index space 2 * size
Construct(size) ==
    /\ size_ = size
    /\ wrap_at_ = 2 * size
    /\ buffer_ = [i \in 0..(size - 1) |-> [seq_state |-> i, value |-> 0]]
    /\ done_sync_ = FALSE
    /\ write_idx_ = 0
    /\ read_idx_ = 0
    /\ mut_ = NoThread
    /\ cv_ = {}

Locals ==
    /\ pc = [t \in Threads |-> "idle"]
    /\ ctx = [t \in Threads |-> "none"]
    /\ read_index = [t \in Threads |-> 0]
    /\ write_index = 0
    /\ sample = 0
    /\ result = [c \in Threads \ {P} |-> 0]
    /\ timeout = [c \in Threads \ {P} |-> 0]
    /\ acct = [c \in Threads \ {P} |-> NoAcct]
    /\ hist = [calls |-> 0,
               k |-> [c \in Threads \ {P} |-> 0],
               owed |-> [c \in Threads \ {P} |-> 0]]
    /\ pushed = 0
    /\ npop = 0
    /\ claims = <<>>

Init == (\E size \in 2..MaxSize : Construct(size)) /\ Locals

InitFast == (\E size \in 2..MaxFastSize : Construct(size)) /\ Locals

\* a queue of capacity 1
InitOne == Construct(1) /\ Locals



\* ------------------------------------------------------------ try_pop
\* Return with the test of line 61 reduced to "timeout > 0.0"
Return_locks(t, ok) ==
    CASE ctx[t] = "evict" -> [pc |-> "try_push", ctx |-> "none"]
      [] ctx[t] = "first" ->
            IF ~(timeout[t] > 0)
            THEN [pc |-> "idle", ctx |-> "none"]
            ELSE [pc |-> "lock", ctx |-> "none"]
      [] ctx[t] = "second" ->
            IF ok THEN [pc |-> "unlock", ctx |-> "none"]
                  ELSE [pc |-> "pop_load", ctx |-> "pred"]
      [] ctx[t] = "pred" ->
            IF ok THEN [pc |-> "unlock", ctx |-> "none"]
                  ELSE [pc |-> "wait", ctx |-> "none"]
      [] OTHER -> [pc |-> "unlock", ctx |-> "none"]

\* Return with wait_for giving up at the first wake-up that finds no sample
Return_once(t, ok) ==
    CASE ctx[t] = "evict" -> [pc |-> "try_push", ctx |-> "none"]
      [] ctx[t] = "first" ->
            IF ok \/ ~(timeout[t] > 0)
            THEN [pc |-> "idle", ctx |-> "none"]
            ELSE [pc |-> "lock", ctx |-> "none"]
      [] ctx[t] = "second" ->
            IF ok THEN [pc |-> "unlock", ctx |-> "none"]
                  ELSE [pc |-> "pop_load", ctx |-> "pred"]
      [] ctx[t] = "pred" ->
            IF ok THEN [pc |-> "unlock", ctx |-> "none"]
                  ELSE [pc |-> "unlock", ctx |-> "none"]
      [] OTHER -> [pc |-> "unlock", ctx |-> "none"]

\* where a call of try_pop returns to, as [pc, ctx]
Return(t, ok) ==
    CASE ctx[t] = "evict" ->
            \* push_sample line 44: the result is ignored, loop to try_push
            [pc |-> "try_push", ctx |-> "none"]
      [] ctx[t] = "first" ->
            \* pop_sample lines 60-61
            IF ok \/ ~(timeout[t] > 0)
            THEN [pc |-> "idle", ctx |-> "none"]
            ELSE [pc |-> "lock", ctx |-> "none"]
      [] ctx[t] = "second" ->
            \* pop_sample line 65: on failure wait_for evaluates its predicate
            IF ok THEN [pc |-> "unlock", ctx |-> "none"]
                  ELSE [pc |-> "pop_load", ctx |-> "pred"]
      [] ctx[t] = "pred" ->
            IF ok THEN [pc |-> "unlock", ctx |-> "none"]
                  ELSE [pc |-> "wait", ctx |-> "none"]
      [] ctx[t] = "flush" ->
            \* flush: count the sample and try again, or return the count
            IF ok THEN [pc |-> "flush_count", ctx |-> "flush"]
                  ELSE [pc |-> "flush_return", ctx |-> "none"]
      [] OTHER ->
            \* "final": wait_for returns the predicate after a timeout
            [pc |-> "unlock", ctx |-> "none"]

\* continue at r; the locals of a call that has returned are dead
Resume(t, r) ==
    /\ pc' = [pc EXCEPT ![t] = r.pc]
    /\ ctx' = [ctx EXCEPT ![t] = r.ctx]
    /\ read_index' = [read_index EXCEPT ![t] = IF r.ctx = "none" THEN 0 ELSE @]
    /\ IF t # P /\ r.pc = "idle"
       THEN /\ result' = [result EXCEPT ![t] = 0]
            /\ timeout' = [timeout EXCEPT ![t] = 0]
       ELSE UNCHANGED <<result, timeout>>

\* index in claims of the latest claim of thread t
ticket(t) ==
    CHOOSE i \in 1..Len(claims) :
        /\ claims[i].who = t
        /\ \A j \in (i + 1)..Len(claims) : claims[j].who # t

\* lines 111 and 126: read_index = read_idx_.load()
pop_load(t) ==
    /\ pc[t] = "pop_load"
    /\ read_index' = [read_index EXCEPT ![t] = read_idx_]
    /\ pc' = [pc EXCEPT ![t] = "pop_check"]
    /\ UNCHANGED <<config, accounting, shared, ctx, write_index, sample, result, timeout,
                   pushed, npop, claims>>

\* lines 113-126: load the item's seq_state and branch on it
pop_check(t) ==
    /\ pc[t] = "pop_check"
    /\ LET seq_state == buffer_[slot(read_index[t])].seq_state
           next_idx == add_wrap(read_index[t], 1)
       IN  IF seq_state = next_idx
           THEN Resume(t, [pc |-> "pop_cas", ctx |-> ctx[t]])
           ELSE IF seq_state = read_index[t]
                THEN Resume(t, Return(t, FALSE))
                ELSE Resume(t, [pc |-> "pop_load", ctx |-> ctx[t]])
    /\ UNCHANGED <<config, accounting, shared, write_index, sample, pushed, npop, claims>>

\* pop_cas with a plain store in place of the compare-and-swap
pop_cas_blind(t) ==
    /\ pc[t] = "pop_cas"
    /\ read_idx_' = add_wrap(read_index[t], 1)
    /\ claims' = Append(claims,
           [who |-> t, call |-> IF t = P THEN pushed ELSE 0,
            count |-> unread,
            val |-> buffer_[slot(read_index[t])].value, got |-> -1])
    /\ pc' = [pc EXCEPT ![t] = IF t = P THEN "pop_mark" ELSE "pop_move"]
    /\ UNCHANGED <<config, accounting, buffer_, done_sync_, write_idx_, mut_, cv_, ctx,
                   read_index, write_index, sample, result, timeout, pushed,
                   npop>>

\* lines 119-121: read_idx_.compare_exchange_weak(read_index, next_idx)
pop_cas(t) ==
    /\ pc[t] = "pop_cas"
    /\ IF read_idx_ = read_index[t]
       THEN /\ read_idx_' = add_wrap(read_index[t], 1)
            /\ claims' = Append(claims,
                   [who |-> t, call |-> IF t = P THEN pushed ELSE 0,
                    count |-> unread,
                    val |-> buffer_[slot(read_index[t])].value, got |-> -1])
            /\ pc' = [pc EXCEPT ![t] = IF t = P \/ ctx[t] = "flush"
                                      THEN "pop_mark" ELSE "pop_move"]
            /\ UNCHANGED read_index
       ELSE /\ read_index' = [read_index EXCEPT ![t] = read_idx_]
            /\ pc' = [pc EXCEPT ![t] = "pop_check"]
            /\ UNCHANGED <<read_idx_, claims>>
    /\ UNCHANGED <<config, accounting, buffer_, done_sync_, write_idx_, mut_, cv_, ctx,
                   write_index, sample, result, timeout, pushed, npop>>

\* line 119: the weak compare-and-swap may fail although the values are equal
pop_cas_spurious(t) ==
    /\ pc[t] = "pop_cas"
    /\ read_idx_ = read_index[t]
    /\ pc' = [pc EXCEPT ![t] = "pop_check"]
    /\ UNCHANGED <<config, accounting, shared, ctx, read_index, write_index, sample, result,
                   timeout, pushed, npop, claims>>

\* line 128 with a destination: result = std::move(item->value)
pop_move(t) ==
    /\ pc[t] = "pop_move"
    /\ LET i == slot(read_index[t]) IN
        /\ result' = [result EXCEPT ![t] = buffer_[i].value]
        /\ claims' = [claims EXCEPT ![ticket(t)].got = buffer_[i].value]
        /\ buffer_' = [buffer_ EXCEPT ![i].value = 0]
    /\ pc' = [pc EXCEPT ![t] = "pop_mark"]
    /\ UNCHANGED <<config, accounting, done_sync_, write_idx_, read_idx_, mut_, cv_, ctx,
                   read_index, write_index, sample, timeout, pushed, npop>>

\* pop_mark that stores the index after the claimed one
pop_mark_next(t) ==
    /\ pc[t] = "pop_mark"
    /\ buffer_' = [buffer_ EXCEPT ![slot(read_index[t])].seq_state =
                                        add_wrap(read_index[t], 1)]
    /\ Resume(t, Return(t, TRUE))
    /\ UNCHANGED <<config, accounting, done_sync_, write_idx_, read_idx_, mut_,
                   cv_, write_index, sample, pushed, npop, claims>>

\* lines 130-131: mark the item as free for the next pass, return true
pop_mark(t) ==
    /\ pc[t] = "pop_mark"
    /\ buffer_' = [buffer_ EXCEPT ![slot(read_index[t])].seq_state =
                                        add_wrap(read_index[t], size_)]
    /\ Resume(t, Return(t, TRUE))
    /\ UNCHANGED <<config, accounting, done_sync_, write_idx_, read_idx_, mut_, cv_,
                   write_index, sample, pushed, npop, claims>>

try_pop(t) ==
    \/ pop_load(t)
    \/ pop_check(t)
    \/ pop_cas(t)
    \/ pop_cas_spurious(t)
    \/ pop_move(t)
    \/ pop_mark(t)

\* ------------------------------------------------------------ push_sample
\* a call of push_sample; the samples are numbered in push order
push_begin(limit) ==
    /\ pc[P] = "idle"
    /\ pushed < limit
    /\ pushed' = pushed + 1
    /\ sample' = pushed + 1
    /\ pc' = [pc EXCEPT ![P] = "try_push"]
    /\ UNCHANGED <<config, accounting, shared, ctx, read_index, write_index, result,
                   timeout, npop, claims>>

\* try_push without the occupancy test of line 99
try_push_nocheck ==
    /\ pc[P] = "try_push"
    /\ pc' = [pc EXCEPT ![P] = "push_widx"]
    /\ write_index' = write_idx_
    /\ UNCHANGED <<config, accounting, shared, ctx, read_index, sample, result, timeout,
                   pushed, npop, claims>>

\* lines 96-100: load write_idx_ and the item's seq_state, fail when occupied
try_push ==
    /\ pc[P] = "try_push"
    /\ IF write_idx_ # buffer_[slot(write_idx_)].seq_state
       THEN /\ pc' = [pc EXCEPT ![P] = "drop"]
            /\ UNCHANGED write_index
       ELSE /\ pc' = [pc EXCEPT ![P] = "push_widx"]
            /\ write_index' = write_idx_
    /\ UNCHANGED <<config, accounting, shared, ctx, read_index, sample, result, timeout,
                   pushed, npop, claims>>

\* lines 39-44: latch done_sync_, then call try_pop() without a destination
drop ==
    /\ pc[P] = "drop"
    /\ done_sync_' = TRUE
    /\ pc' = [pc EXCEPT ![P] = "pop_load"]
    /\ ctx' = [ctx EXCEPT ![P] = "evict"]
    /\ UNCHANGED <<config, accounting, buffer_, write_idx_, read_idx_, mut_, cv_,
                   read_index, write_index, sample, result, timeout,
                   pushed, npop, claims>>

\* line 101: write_idx_.store(next_idx)
push_widx ==
    /\ pc[P] = "push_widx"
    /\ write_idx_' = add_wrap(write_index, 1)
    /\ pc' = [pc EXCEPT ![P] = "push_copy"]
    /\ UNCHANGED <<config, accounting, buffer_, done_sync_, read_idx_, mut_, cv_, ctx,
                   read_index, write_index, sample, result, timeout,
                   pushed, npop, claims>>

\* line 102: copy_or_move(item.value, sample)
push_copy ==
    /\ pc[P] = "push_copy"
    /\ buffer_' = [buffer_ EXCEPT ![slot(write_index)].value = sample]
    /\ pc' = [pc EXCEPT ![P] = "push_seq"]
    /\ UNCHANGED <<config, accounting, done_sync_, write_idx_, read_idx_, mut_, cv_, ctx,
                   read_index, write_index, sample, result, timeout,
                   pushed, npop, claims>>

\* lines 103-104: item.seq_state.store(next_idx), return true
push_seq ==
    /\ pc[P] = "push_seq"
    /\ buffer_' = [buffer_ EXCEPT ![slot(write_index)].seq_state =
                                        add_wrap(write_index, 1)]
    /\ write_index' = 0
    /\ pc' = [pc EXCEPT ![P] = "notify_lock"]
    /\ UNCHANGED <<config, accounting, done_sync_, write_idx_, read_idx_, mut_, cv_, ctx,
                   read_index, sample, result, timeout, pushed, npop, claims>>

\* notify_one issued without taking the mutex
notify_unlocked ==
    /\ pc[P] = "notify_lock"
    /\ IF cv_ = {}
       THEN /\ pc' = [pc EXCEPT ![P] = "idle"]
            /\ UNCHANGED cv_
       ELSE \E w \in cv_ :
            /\ cv_' = cv_ \ {w}
            /\ pc' = [pc EXCEPT ![P] = "idle", ![w] = "wake"]
    /\ sample' = 0
    /\ UNCHANGED <<config, accounting, buffer_, done_sync_, write_idx_, read_idx_, mut_,
                   ctx, read_index, write_index, result, timeout, pushed,
                   npop, claims>>

\* line 48: std::lock_guard<std::mutex> lk(mut_)
notify_lock ==
    /\ pc[P] = "notify_lock"
    /\ mut_ = NoThread
    /\ mut_' = P
    /\ pc' = [pc EXCEPT ![P] = "notify"]
    /\ UNCHANGED <<config, accounting, buffer_, done_sync_, write_idx_, read_idx_, cv_,
                   ctx, read_index, write_index, sample, result, timeout,
                   pushed, npop, claims>>

\* lines 49-51: cv_.notify_one(), release the lock, return
notify ==
    /\ pc[P] = "notify"
    /\ IF cv_ = {}
       THEN /\ pc' = [pc EXCEPT ![P] = "idle"]
            /\ UNCHANGED cv_
       ELSE \E w \in cv_ :
            /\ cv_' = cv_ \ {w}
            /\ pc' = [pc EXCEPT ![P] = "idle", ![w] = "wake"]
    /\ mut_' = NoThread
    /\ sample' = 0
    /\ UNCHANGED <<config, accounting, buffer_, done_sync_, write_idx_, read_idx_, ctx,
                   read_index, write_index, result, timeout, pushed, npop,
                   claims>>

push_steps ==
    \/ try_push
    \/ drop
    \/ push_widx
    \/ push_copy
    \/ push_seq
    \/ notify_lock
    \/ notify
    \/ try_pop(P)

push_sample(limit) == push_begin(limit) \/ push_steps

\* ------------------------------------------------------------- pop_sample
\* lines 58-60: a call of pop_sample(to), first try_pop
pop_begin(c, to, limit) ==
    /\ pc[c] = "idle"
    /\ npop < limit
    /\ npop' = npop + 1
    /\ timeout' = [timeout EXCEPT ![c] = to]
    /\ pc' = [pc EXCEPT ![c] = "pop_load"]
    /\ ctx' = [ctx EXCEPT ![c] = "first"]
    /\ UNCHANGED <<config, accounting, shared, read_index, write_index, sample, result,
                   pushed, claims>>

\* line 64: std::unique_lock<std::mutex> lk(mut_), then the second try_pop
lock(c) ==
    /\ pc[c] = "lock"
    /\ mut_ = NoThread
    /\ mut_' = c
    /\ pc' = [pc EXCEPT ![c] = "pop_load"]
    /\ ctx' = [ctx EXCEPT ![c] = "second"]
    /\ UNCHANGED <<config, accounting, buffer_, done_sync_, write_idx_, read_idx_, cv_,
                   read_index, write_index, sample, result, timeout, pushed,
                   npop, claims>>

\* line 65, wait_for: the predicate failed, release the mutex and block
wait(c) ==
    /\ pc[c] = "wait"
    /\ mut_' = NoThread
    /\ cv_' = cv_ \cup {c}
    /\ pc' = [pc EXCEPT ![c] = "waiting"]
    /\ UNCHANGED <<config, accounting, buffer_, done_sync_, write_idx_, read_idx_, ctx,
                   read_index, write_index, sample, result, timeout, pushed,
                   npop, claims>>

\* line 65, wait_for: the timeout of a finite wait expires
timeout_expired(c) ==
    /\ pc[c] = "waiting"
    /\ timeout[c] # FOREVER
    /\ cv_' = cv_ \ {c}
    /\ pc' = [pc EXCEPT ![c] = "wake_timeout"]
    /\ UNCHANGED <<config, accounting, buffer_, done_sync_, write_idx_, read_idx_, mut_,
                   ctx, read_index, write_index, sample, result, timeout,
                   pushed, npop, claims>>

\* line 65, wait_for: a condition variable may wake without a notification
spurious_wake(c) ==
    /\ pc[c] = "waiting"
    /\ cv_' = cv_ \ {c}
    /\ pc' = [pc EXCEPT ![c] = "wake"]
    /\ UNCHANGED <<config, accounting, buffer_, done_sync_, write_idx_, read_idx_, mut_,
                   ctx, read_index, write_index, sample, result, timeout,
                   pushed, npop, claims>>

\* line 65, wait_for: reacquire the mutex after a wake, evaluate the predicate
wake(c) ==
    /\ pc[c] = "wake"
    /\ mut_ = NoThread
    /\ mut_' = c
    /\ pc' = [pc EXCEPT ![c] = "pop_load"]
    /\ ctx' = [ctx EXCEPT ![c] = "pred"]
    /\ UNCHANGED <<config, accounting, buffer_, done_sync_, write_idx_, read_idx_, cv_,
                   read_index, write_index, sample, result, timeout, pushed,
                   npop, claims>>

\* line 65, wait_for: reacquire the mutex after the timeout, return pred()
wake_timeout(c) ==
    /\ pc[c] = "wake_timeout"
    /\ mut_ = NoThread
    /\ mut_' = c
    /\ pc' = [pc EXCEPT ![c] = "pop_load"]
    /\ ctx' = [ctx EXCEPT ![c] = "final"]
    /\ UNCHANGED <<config, accounting, buffer_, done_sync_, write_idx_, read_idx_, cv_,
                   read_index, write_index, sample, result, timeout, pushed,
                   npop, claims>>

\* lines 66-68: lk goes out of scope, return result
unlock(c) ==
    /\ pc[c] = "unlock"
    /\ mut_' = NoThread
    /\ pc' = [pc EXCEPT ![c] = "idle"]
    /\ result' = [result EXCEPT ![c] = 0]
    /\ timeout' = [timeout EXCEPT ![c] = 0]
    /\ UNCHANGED <<config, accounting, buffer_, done_sync_, write_idx_, read_idx_, cv_,
                   ctx, read_index, write_index, sample, pushed, npop, claims>>

pop_steps(c) ==
    \/ lock(c)
    \/ wait(c)
    \/ timeout_expired(c)
    \/ spurious_wake(c)
    \/ wake(c)
    \/ wake_timeout(c)
    \/ unlock(c)
    \/ try_pop(c)

pop_sample(c, limit) ==
    \/ \E to \in Timeouts : pop_begin(c, to, limit)
    \/ pop_steps(c)

\* ------------------------------------------------------------------ flush
\* number of claims thread t has made
ClaimsBy(t) == Cardinality({i \in DOMAIN claims : claims[i].who = t})

\* a call of flush: n = 0, then try_pop() without a destination
flush_begin(c, limit) ==
    /\ pc[c] = "idle"
    /\ hist.calls < limit
    /\ hist' = [hist EXCEPT !.calls = @ + 1, !.k[c] = unread]
    /\ pc' = [pc EXCEPT ![c] = "pop_load"]
    /\ ctx' = [ctx EXCEPT ![c] = "flush"]
    /\ UNCHANGED <<config, shared, acct, read_index, write_index, sample,
                   result, timeout, pushed, npop, claims>>

\* flush: try_pop() claimed a sample, count it and try again
flush_count(c) ==
    /\ pc[c] = "flush_count"
    /\ acct' = [acct EXCEPT ![c].n = @ + 1]
    /\ pc' = [pc EXCEPT ![c] = "pop_load"]
    /\ UNCHANGED <<config, shared, hist, ctx, read_index, write_index, sample,
                   result, timeout, pushed, npop, claims>>

\* flush: try_pop() found the queue empty, return the count
flush_return(c) ==
    /\ pc[c] = "flush_return"
    /\ acct' = [acct EXCEPT ![c] = NoAcct]
    /\ hist' = [hist EXCEPT !.k[c] = 0]
    /\ pc' = [pc EXCEPT ![c] = "idle"]
    /\ UNCHANGED <<config, shared, ctx, read_index, write_index, sample,
                   result, timeout, pushed, npop, claims>>

flush(c, limit) ==
    \/ flush_begin(c, limit)
    \/ flush_count(c)
    \/ flush_return(c)
    \/ try_pop(c)

\* ------------------------------------------------- read_available, empty
\* a call of read_available or of empty
avail_begin(c, op, limit) ==
    /\ pc[c] = "idle"
    /\ hist.calls < limit
    /\ hist' = [hist EXCEPT !.calls = @ + 1]
    /\ pc' = [pc EXCEPT ![c] = "avail_first"]
    /\ ctx' = [ctx EXCEPT ![c] = op]
    /\ UNCHANGED <<config, shared, acct, read_index, write_index, sample,
                   result, timeout, pushed, npop, claims>>

\* the snapshot of one cursor; the order of the two loads is not fixed
avail_first(c) ==
    /\ pc[c] = "avail_first"
    /\ \/ acct' = [acct EXCEPT ![c].w = write_idx_]
       \/ acct' = [acct EXCEPT ![c].r = read_idx_]
    /\ pc' = [pc EXCEPT ![c] = "avail_second"]
    /\ UNCHANGED <<config, shared, hist, ctx, read_index, write_index, sample,
                   result, timeout, pushed, npop, claims>>

\* the snapshot of the other cursor; return (write - read) mod wrap_at_, or
\* whether the two are equal.  hist.owed: the number of claims the caller
\* will have made once it has popped the samples the call reported
avail_second(c) ==
    /\ pc[c] = "avail_second"
    /\ LET w == IF acct[c].w = NotLoaded THEN write_idx_ ELSE acct[c].w
           r == IF acct[c].r = NotLoaded THEN read_idx_ ELSE acct[c].r
           n == (w - r + wrap_at_) % wrap_at_
           reported == IF ctx[c] = "empty"
                       THEN (IF w = r THEN 0 ELSE 1)
                       ELSE n
       IN  hist' = [hist EXCEPT !.owed[c] = ClaimsBy(c) + reported]
    /\ acct' = [acct EXCEPT ![c] = NoAcct]
    /\ pc' = [pc EXCEPT ![c] = "idle"]
    /\ ctx' = [ctx EXCEPT ![c] = "none"]
    /\ UNCHANGED <<config, shared, read_index, write_index, sample, result,
                   timeout, pushed, npop, claims>>

read_available(c, limit) ==
    \/ \E op \in {"read_available", "empty"} : avail_begin(c, op, limit)
    \/ avail_first(c)
    \/ avail_second(c)

\* ---------------------------------------------------------- specifications
AllIdle == \A t \in Threads : pc[t] = "idle"

\* one producer, NumConsumers consumers, every timeout
Next == push_sample(MaxPush) \/ \E c \in Consumers : pop_sample(c, MaxPop)

Spec == Init /\ [][Next]_vars

\* one producer, NumConsumers consumers that never block: pop_sample(0)
NextFast ==
    \/ push_sample(MaxFastPush)
    \/ \E c \in Consumers : (pop_begin(c, 0, MaxPop) \/ try_pop(c))

SpecFast == InitFast /\ [][NextFast]_vars

\* one producer, NumRacers consumers that never block, smallest capacity
NextRace ==
    \/ push_sample(MaxRacePush)
    \/ \E c \in Racers : (pop_begin(c, 0, MaxPop) \/ try_pop(c))

SpecRace == Init /\ [][NextRace]_vars

\* no two calls overlap: a call begins when every thread is idle
NextSeq ==
    \/ AllIdle /\ push_begin(MaxFastPush)
    \/ push_steps
    \/ \E c \in Consumers :
        \/ AllIdle /\ \E to \in {0, 1} : pop_begin(c, to, MaxSeqPop)
        \/ pop_steps(c)

SpecSeq == InitFast /\ [][NextSeq]_vars

\* the producer fills the queue alone, then the consumers pop concurrently
\* and no push runs
NextDrain ==
    \/ npop = 0 /\ push_begin(MaxFastPush)
    \/ push_steps
    \/ \E c \in Consumers :
        \/ pc[P] = "idle" /\ \E to \in Timeouts : pop_begin(c, to, MaxSeqPop)
        \/ pop_steps(c)

SpecDrain == InitFast /\ [][NextDrain]_vars

\* fair scheduling: every thread keeps taking steps, and the weak
\* compare-and-swap does not fail spuriously forever
Fairness ==
    /\ WF_vars(push_steps)
    /\ SF_vars(pop_cas(P))
    /\ \A c \in Consumers : WF_vars(try_pop(c)) /\ SF_vars(pop_cas(c))

FairFast == SpecFast /\ Fairness

\* the same for the blocking path: a thread that can take the mutex, enter
\* or leave the wait does so; nothing forces a timeout or a spurious wake
GateFairness ==
    \A c \in Consumers :
        WF_vars(lock(c) \/ wait(c) \/ wake(c) \/ wake_timeout(c) \/ unlock(c))

FairSpec == Spec /\ Fairness /\ GateFairness

\* consumers that block indefinitely: pop_sample(FOREVER)
NextWake ==
    \/ push_sample(MaxWakePush)
    \/ \E c \in Consumers :
        \/ pop_begin(c, FOREVER, MaxWakePop)
        \/ lock(c) \/ wait(c) \/ spurious_wake(c) \/ wake(c) \/ unlock(c)
        \/ try_pop(c)

FairWake == Init /\ [][NextWake]_vars /\ Fairness /\ GateFairness

\* the timeouts of the blocking path, with a negative one
WaitTimeouts == Timeouts \cup {-1}

\* the producer stores samples in a queue that has room for them; then the
\* consumers pop with any timeout and no push runs: the queue is drained and
\* stays empty
NextWait ==
    \/ npop = 0 /\ pushed < size_ /\ push_begin(MaxWaitPush)
    \/ try_push \/ push_widx \/ push_copy \/ push_seq \/ notify_lock \/ notify
    \/ \E c \in Waiters :
        \/ pc[P] = "idle" /\ \E to \in WaitTimeouts : pop_begin(c, to, MaxWaitPop)
        \/ pop_steps(c)

\* fair scheduling of the producer and the waiters: a thread keeps taking
\* steps, the deadline of a finite wait_for passes, the weak compare-and-swap
\* does not fail spuriously forever, and a thread that keeps asking for a
\* mutex that keeps being released gets it
WaitFairness ==
    /\ WF_vars(try_push \/ push_widx \/ push_copy \/ push_seq \/ notify_lock
                \/ notify)
    /\ \A c \in Waiters :
        /\ WF_vars(pop_load(c) \/ pop_check(c) \/ pop_move(c) \/ pop_mark(c)
                    \/ wait(c) \/ unlock(c))
        /\ SF_vars(pop_cas(c) \/ lock(c) \/ wake(c) \/ wake_timeout(c))
        /\ SF_vars(timeout_expired(c))

FairWait == Init /\ [][NextWait]_vars /\ WaitFairness

\* a queue of capacity 1, no two calls overlap: the producer pushes, then
\* the consumers pop
NextOne ==
    \/ AllIdle /\ npop = 0 /\ push_begin(MaxOnePush)
    \/ try_push \/ push_widx \/ push_copy \/ push_seq \/ notify_lock \/ notify
    \/ \E c \in Consumers :
        \/ AllIdle /\ \E to \in Timeouts : pop_begin(c, to, MaxOnePop)
        \/ pop_steps(c)

SpecOne == InitOne /\ [][NextOne]_vars

\* no two calls overlap: pushes, non-blocking pops and flushes in any order
NextFlush ==
    \/ AllIdle /\ push_begin(MaxFlushPush)
    \/ push_steps
    \/ \E c \in Consumers :
        \/ AllIdle /\ pop_begin(c, 0, MaxFlushPop)
        \/ AllIdle /\ flush_begin(c, MaxFlush)
        \/ flush_count(c)
        \/ flush_return(c)
        \/ try_pop(c)

SpecFlush == InitFast /\ [][NextFlush]_vars

\* the thread that performs all pops
Popper == 1

\* one producer and one thread that calls read_available, empty and
\* pop_sample(0)
NextAvail ==
    \/ push_sample(MaxAvailPush)
    \/ pop_begin(Popper, 0, MaxAvailPop)
    \/ try_pop(Popper)
    \/ read_available(Popper, MaxAvail)

SpecAvail == Init /\ [][NextAvail]_vars

\* a published unread sample is resident at the read cursor: the slot of the
\* read cursor has received its marker store
Published == buffer_[slot(read_idx_)].seq_state = add_wrap(read_idx_, 1)

\* the runs in which a published sample stays resident: no step takes the
\* last published sample, and a pop begins when one is resident
NextBusy ==
    \/ push_sample(MaxFastPush) /\ (Published => Published')
    \/ \E c \in Consumers :
        /\ (Published /\ pop_begin(c, 0, MaxPop)) \/ try_pop(c)
        /\ Published => Published'

SpecBusy == InitFast /\ [][NextBusy]_vars

\* ------------------------------------------------------------ history
\* the claims made by forced evictions and by consumers
Evictions == {i \in DOMAIN claims : claims[i].who = P}
Pops == {i \in DOMAIN claims : claims[i].who # P}

\* number of write-cursor advances so far
stored ==
    IF pc[P] \in {"push_copy", "push_seq", "notify_lock", "notify", "idle"}
    THEN pushed ELSE pushed - 1

SetMin(S) == CHOOSE x \in S : \A y \in S : x <= y

\* ----------------------------------------------------------------- claims
\* C1: (write_idx - read_idx) mod M is never more than the capacity: the
\* unread samples never exceed the capacity and the read cursor never
\* overtakes the write cursor.
CapacityBound == unread \in 0..size_


\* C2: every claim takes a pushed sample that no other claim took and
\* returns it, and the cursors account for the rest: pops = pushes -
\* evictions - residents.
ExactlyOneFate ==
    /\ \A i \in DOMAIN claims : claims[i].val \in 1..pushed
    /\ \A i, j \in DOMAIN claims : i # j => claims[i].val # claims[j].val
    /\ \A i \in Pops : claims[i].got \in {-1, claims[i].val}
    /\ unread = stored - Len(claims)

\* the values of the unread slots, oldest first
Contents ==
    [k \in 1..unread |-> buffer_[slot(add_wrap(read_idx_, k - 1))].value]

Min(a, b) == IF a < b THEN a ELSE b

\* thread t is about to leave try_pop with false / to attempt the claim
WillFail(t) ==
    /\ pc[t] = "pop_check"
    /\ buffer_[slot(read_index[t])].seq_state = read_index[t]

WillClaim(t) ==
    /\ pc[t] = "pop_check"
    /\ buffer_[slot(read_index[t])].seq_state = add_wrap(read_index[t], 1)

\* C4: when no two calls overlap, every claim takes the oldest sample, a
\* push evicts only from a full queue and at most once, the queue holds the
\* latest samples in push order (the last min(n, C) after n pushes and no
\* pop), and a pop reports empty exactly when nothing is unread.
DropOldest ==
    /\ \A i \in DOMAIN claims : claims[i].val = i
    /\ \A i \in Pops : claims[i].got \in {-1, i}
    /\ \A i \in Evictions : claims[i].count = size_
    /\ \A i, j \in Evictions : i # j => claims[i].call # claims[j].call
    /\ AllIdle =>
        /\ unread = pushed - Len(claims)
        /\ unread <= size_
        /\ Contents = [k \in 1..unread |-> Len(claims) + k]
    /\ (AllIdle /\ npop = 0) => unread = Min(pushed, size_)
    /\ \A c \in Consumers : pc[c] = "pop_check" =>
        /\ WillClaim(c) <=> unread > 0
        /\ WillFail(c) <=> unread = 0

\* Scenario A: capacity 3, push 1, 2, 3, 4, then four pops: 2, 3, 4, empty
ScenarioA ==
    /\ size_ = 3 /\ pushed = 4 /\ npop = 4 /\ AllIdle /\ unread = 0
    /\ Len(claims) = 4
    /\ claims[1].who = P /\ claims[1].val = 1
    /\ \A i \in 2..4 : claims[i].who \in Consumers /\ claims[i].got = i

\* C5: K samples resident, consumers pop concurrently, no push runs: at most
\* K pops succeed, each returns a different one of the K samples, a pop
\* reports empty only after K pops succeeded, and when every pop has
\* returned min(pops, K) of them succeeded.
ExactlyOnce ==
    LET K == Min(pushed, size_) IN
    npop > 0 =>
        /\ Cardinality(Pops) <= K
        /\ \A i \in Pops : /\ claims[i].val = i
                           /\ i > pushed - K
                           /\ claims[i].got \in {-1, i}
        /\ \A c \in Consumers : WillFail(c) => Cardinality(Pops) = K
        /\ (\A c \in Consumers : pc[c] = "idle") =>
                Cardinality(Pops) = Min(npop, K)

\* both consumers took a sample of a full queue and a later pop found it empty
Drained ==
    /\ npop >= 3 /\ AllIdle /\ pushed > size_
    /\ Cardinality(Pops) = size_
    /\ \A c \in Consumers : \E i \in Pops : claims[i].who = c /\ claims[i].got = i


\* C3: of two samples that consumers returned and no push evicted, the
\* one pushed first was claimed first (claims is in the order of the
\* successful compare-and-swaps; got is the sample the claim returned).
FifoAmongSurvivors ==
    \A i, j \in Pops :
        ( /\ i < j
          /\ claims[i].got > 0
          /\ claims[j].got > 0
          /\ \A e \in Evictions :
                claims[e].val \notin {claims[i].got, claims[j].got} )
        => claims[i].got < claims[j].got

\* C6: under fair scheduling every push_sample call returns
PushTerminates == (pc[P] # "idle") ~> (pc[P] = "idle")

\* the producer's forced try_pop reloads a read cursor that did not move and
\* finds the item neither ready nor empty: it spins until a consumer stores
SpinWait ==
    /\ pc[P] = "pop_check"
    /\ read_index[P] = read_idx_
    /\ buffer_[slot(read_idx_)].seq_state \notin
            {read_idx_, add_wrap(read_idx_, 1)}

\* C7: one push_sample call evicts at most one sample and never waits for a
\* consumer.
OneEvictionPerPush ==
    /\ \A i, j \in Evictions : i # j => claims[i].call # claims[j].call
    /\ ~SpinWait

\* C8: an eviction takes the oldest unread sample, from a queue that holds
\* C unread samples.
EvictOnlyWhenFull ==
    \A i \in Evictions :
        /\ claims[i].count = size_
        /\ claims[i].val =
              SetMin((1..pushed) \ {claims[j].val : j \in 1..(i - 1)})

\* a sample is published, consumers sleep on the condition variable, no
\* consumer is active and the producer is not about to notify
LostWakeup ==
    /\ Published
    /\ cv_ # {}
    /\ \A c \in Consumers : pc[c] \in {"waiting", "idle"}
    /\ pc[P] \notin {"notify_lock", "notify"}

\* C9: no lost wake-up: no reachable state is a lost wake-up, and a sample
\* published while a consumer sleeps is eventually claimed, or the sleepers
\* wake.
NoLostWakeup ==
    /\ [](~LostWakeup)
    /\ \A n \in 0..(MaxWakePush + MaxWakePop) :
        (Published /\ cv_ # {} /\ Len(claims) = n)
            ~> (Len(claims) > n \/ cv_ = {})

\* the producer is about to notify a sleeper of a published sample
WakePending == Published /\ cv_ # {} /\ pc[P] = "notify"

\* C10 as stated: push_sample never acquires or waits for the mutex
ProducerNeverLocks == mut_ # P /\ pc[P] # "notify_lock"

\* consumer c is on the blocking path of pop_sample
SlowPath(c) ==
    \/ pc[c] \in {"lock", "wait", "waiting", "wake", "wake_timeout", "unlock"}
    \/ ctx[c] \in {"second", "pred", "final"}

\* C10, amended: push_sample takes the mutex once per call, for notify_one,
\* after its sample is stored; pop_sample takes it only after its first
\* try_pop found the queue empty with a positive timeout.
MutexDiscipline ==
    /\ [](mut_ = P => pc[P] = "notify")
    /\ [](\A c \in Consumers : (mut_ = c \/ SlowPath(c)) => timeout[c] > 0)
    /\ [](\A c \in Consumers : mut_ = c => SlowPath(c))
    /\ [][\A c \in Consumers :
            (pc'[c] = "lock" /\ pc[c] # "lock") =>
                (ctx[c] = "first" /\ WillFail(c))]_vars

\* the producer waits for the mutex that a consumer holds
ProducerDelayed == pc[P] = "notify_lock" /\ mut_ \in Consumers

\* C11: pop_sample with a non-positive timeout never takes the slow path and
\* returns at once when its try_pop fails; with a positive timeout it returns
\* empty only from the predicate that wait_for evaluates after the deadline
\* of a finite wait has passed; every call with a finite timeout returns;
\* and a step of a consumer that has claimed nothing leaves the cursors and
\* the slots as they are.
TimeoutBehaviour ==
    /\ [](\A c \in Waiters :
            ~(timeout[c] > 0) => (~SlowPath(c) /\ mut_ # c /\ c \notin cv_))
    /\ [][\A c \in Waiters :
            /\ (pc[c] = "pop_check" /\ pc'[c] = "idle") => ~(timeout[c] > 0)
            /\ (pc[c] = "pop_check" /\ pc'[c] = "unlock") =>
                    (ctx[c] = "final" /\ timeout[c] > 0)
            /\ (ctx'[c] = "final" /\ ctx[c] # "final") => pc[c] = "wake_timeout"
            /\ (pc'[c] = "wake_timeout" /\ pc[c] # "wake_timeout") =>
                    (pc[c] = "waiting" /\ timeout[c] # FOREVER)
            /\ (pc'[c] # pc[c] /\ pc[c] \notin {"pop_cas", "pop_move", "pop_mark"})
                    => UNCHANGED <<buffer_, read_idx_, write_idx_>>
            /\ (pc[c] = "pop_cas" /\ pc'[c] = "pop_check")
                    => UNCHANGED <<buffer_, read_idx_, write_idx_>>]_vars
    /\ \A c \in Waiters :
            (pc[c] # "idle" /\ timeout[c] # FOREVER) ~> (pc[c] = "idle")

\* a pop with a finite positive timeout returns empty from a drained queue
\* after its deadline has passed
TimedOut ==
    \E c \in Waiters :
        /\ pc[c] = "unlock" /\ timeout[c] = 1 /\ result[c] = 0
        /\ pushed > 0 /\ unread = 0 /\ Pops # {}

\* C12: capacity 1: after one or more pushes and no pop the queue holds
\* one unread sample, the latest one pushed, and the first pop claims and
\* returns it.
CapacityOne ==
    size_ = 1 =>
        /\ (AllIdle /\ npop = 0 /\ pushed > 0) =>
                (unread = 1 /\ Published /\ buffer_[0].value = pushed)
        /\ (npop = 1 /\ pushed > 0 /\ Pops = {}) =>
                \A c \in Consumers : ~WillFail(c)
        /\ \A i \in Pops :
                (\A j \in Pops : i <= j) => claims[i].got \in {-1, pushed}

\* every slot is free: its marker is the write cursor value that will next
\* claim it
FreeSlots ==
    \A j \in 0..(size_ - 1) :
        buffer_[slot(add_wrap(write_idx_, j))].seq_state = add_wrap(write_idx_, j)

\* C13: no two calls overlap: a flush of a queue that holds K unread
\* samples, K in 0..C, returns K and leaves the cursors equal and every slot
\* free; so a flush right after it returns 0.
FlushExact ==
    \A c \in Consumers :
        /\ hist.k[c] \in 0..size_
        /\ pc[c] = "flush_return" =>
                /\ acct[c].n = hist.k[c]
                /\ read_idx_ = write_idx_
                /\ FreeSlots

\* a flush of a full queue that has evicted a sample returns the capacity
FlushedFull ==
    \E c \in Consumers :
        /\ pc[c] = "flush_return" /\ acct[c].n = size_
        /\ Evictions # {} /\ Pops # {}

\* C14: the thread that performs all pops calls read_available or empty
\* while the producer may be pushing: a pop_sample(0) of that thread reports
\* empty only after the thread has claimed the samples the call reported
\* (n for read_available, one for empty returning false), and every claim
\* returns a sample.
ExactAvailable ==
    /\ WillFail(Popper) => ClaimsBy(Popper) >= hist.owed[Popper]
    /\ \A i \in Pops : claims[i].got # 0

\* the marker of slot i is that of a free slot: a write cursor value that
\* designates the slot
FreeMarker(i) == buffer_[i].seq_state % size_ = i

\* the marker of slot i is that of a filled slot: such a value plus 1 mod M
FilledMarker(i) ==
    ((buffer_[i].seq_state + wrap_at_ - 1) % wrap_at_) % size_ = i

\* C15: every marker is that of a free slot or that of a filled slot, at
\* every step; try_push moves the marker of its slot from w to (w + 1) mod M
\* and a successful try_pop at read index r sets it to (r + C) mod M.
SlotMarker ==
    /\ [](\A i \in 0..(size_ - 1) : FreeMarker(i) \/ FilledMarker(i))
    /\ [][pc[P] = "push_seq" /\ pc'[P] # "push_seq" =>
            LET i == slot(write_index) IN
            /\ buffer_[i].seq_state = write_index
            /\ buffer_'[i].seq_state = (write_index + 1) % wrap_at_]_vars
    /\ [][\A t \in Threads :
            pc[t] = "pop_mark" /\ pc'[t] # "pop_mark" =>
                LET i == slot(read_index[t]) IN
                /\ buffer_'[i].seq_state = (read_index[t] + size_) % wrap_at_
                /\ buffer_'[i].seq_state % size_ = i]_vars

\* number of slots whose marker is that of a filled slot
FilledCount == Cardinality({i \in 0..(size_ - 1) : FilledMarker(i)})

\* C16: at every step the number of slots marked filled is
\* (write_idx - read_idx) mod M
FilledIsUnread == FilledCount = unread

\* number of pushes that have passed their commit point, the marker store
committed == IF pc[P] \in {"notify_lock", "notify", "idle"}
             THEN pushed ELSE pushed - 1

\* the abstract queue: the committed samples that no claim has removed
abstract == [k \in 1..(committed - Len(claims)) |-> Len(claims) + k]

\* C17: with the marker store as the commit point of a push and the
\* successful compare-and-swap as that of a pop or an eviction, every
\* commit of a removal takes the head of the abstract queue (the i-th
\* removal takes the i-th sample pushed, after that sample was committed),
\* a pop returns the sample it removed, and the abstract queue holds at most
\* C samples.
Linearizable ==
    /\ Len(claims) <= committed
    /\ Len(abstract) <= size_
    /\ \A i \in DOMAIN claims : claims[i].val = i
    /\ \A i \in Pops : claims[i].got \in {-1, i}
    /\ [][Len(claims') > Len(claims) =>
            /\ abstract # <<>>
            /\ claims'[Len(claims')].val = Head(abstract)
            /\ abstract' = Tail(abstract)]_vars
    /\ [][committed' > committed =>
            abstract' = Append(abstract, sample)]_vars

\* slot i holds an unread value: it is marked filled and the read cursor
\* has not passed it
Unread(i) ==
    /\ FilledMarker(i)
    /\ \E k \in 0..(unread - 1) : slot(add_wrap(read_idx_, k)) = i

\* C18: a try_push that reports full leaves the cursors, the markers and
\* the payloads as they are, and reports full only when the slot of the
\* write cursor holds an unread value.
FullChangesNothing ==
    [][(pc[P] = "try_push" /\ pc'[P] = "drop") =>
            /\ UNCHANGED <<write_idx_, read_idx_, buffer_>>
            /\ Unread(slot(write_idx_))]_vars

\* thread t is between the steps that give it the payload of slot i and the
\* marker store that releases it: a pop with a destination from its
\* compare-and-swap (line 119) on, the producer from its write cursor store
\* (line 101) on.  An eviction does not touch the payload.
Holds(t, i) ==
    \/ /\ t # P
       /\ pc[t] \in {"pop_move", "pop_mark"}
       /\ slot(read_index[t]) = i
    \/ /\ t = P
       /\ pc[P] \in {"push_copy", "push_seq"}
       /\ slot(write_index) = i

\* C19: no two threads have the payload of the same slot at once.
ExclusivePayload ==
    \A i \in 0..(size_ - 1) : \A t, u \in Threads :
        (Holds(t, i) /\ Holds(u, i)) => t = u

\* C20: a try_pop whose whole call runs while a published unread sample is
\* resident does not report empty.
NoFalseEmpty == \A c \in Consumers : ctx[c] = "first" => ~WillFail(c)

====
